---- MODULE Spec2Model ----
(***************************************************************************)
(* spectre.parallel.algorithmic: ParallelGroupBy (padded group layout with *)
(* its inverse permutation) and Rolling (sliding windows, adjustment,      *)
(* chunked aggregation), with the NaN-aware reductions they use.           *)
(*                                                                         *)
(* Floating point values are exact rationals <<n, d>> in lowest terms with *)
(* d >= 0; d = 0 gives the IEEE specials: <<0,0>> is NaN, <<1,0>> is +inf, *)
(* <<-1,0>> is -inf.  Within the bounds below no rounding of the real      *)
(* float arithmetic changes an ordering or a truncation.                   *)
(* A tensor is [shape |-> <<d1, ..>>, flat |-> row-major elements,         *)
(* dtype |-> name].                                                        *)
(* Indices stored in tensors are 0-based, as in the source.                *)
(***************************************************************************)
EXTENDS Integers, Sequences, FiniteSets, TLC

\* ------------------------------------------------------------------ bounds
MaxN == 3          \* longest key vector
KeyRange == 2      \* keys are the halves from -1 to KeyRange/2
MaxCells == 3      \* rows * time of a Rolling input
MaxWin == 2        \* largest window

\* ------------------------------------------------------------------ floats
Abs(a) == IF a < 0 THEN -a ELSE a

Sign(a) == IF a < 0 THEN -1 ELSE IF a > 0 THEN 1 ELSE 0

RECURSIVE GCD(_, _)
GCD(a, b) == IF b = 0 THEN a ELSE GCD(b, a % b)

Norm(n, d) ==
  IF d = 0 THEN <<Sign(n), 0>>
  ELSE LET g == GCD(Abs(n), Abs(d))
           s == Sign(d)
       IN  <<(s * n) \div g, (s * d) \div g>>

NaN == <<0, 0>>

PosInf == <<1, 0>>

NegInf == <<-1, 0>>

Num(k) == <<k, 1>>

IsNaN(a) == a = NaN

IsInf(a) == a[2] = 0 /\ a[1] # 0

Add(a, b) ==
  IF IsNaN(a) \/ IsNaN(b) THEN NaN
  ELSE IF IsInf(a) THEN (IF IsInf(b) /\ b # a THEN NaN ELSE a)
  ELSE IF IsInf(b) THEN b
  ELSE Norm(a[1] * b[2] + b[1] * a[2], a[2] * b[2])

Neg(a) == <<-a[1], a[2]>>

Sub(a, b) == Add(a, Neg(b))

Mul(a, b) == Norm(a[1] * b[1], a[2] * b[2])

Div(a, b) == Mul(a, Norm(b[2], b[1]))

\* a < b as IEEE compares: false when either side is NaN
Less(a, b) ==
  IF IsNaN(a) \/ IsNaN(b) THEN FALSE
  ELSE IF a[2] = 0 /\ b[2] = 0 THEN a[1] < b[1]
  ELSE a[1] * b[2] < b[1] * a[2]

\* Tensor.int(): truncation toward zero
Trunc(a) == IF a[1] >= 0 THEN a[1] \div a[2] ELSE -((-a[1]) \div a[2])

\* ----------------------------------------------------------------- tensors
Numel(shape) == IF Len(shape) = 0 THEN 1
                ELSE IF Len(shape) = 1 THEN shape[1]
                ELSE IF Len(shape) = 2 THEN shape[1] * shape[2]
                ELSE shape[1] * shape[2] * shape[3]

Tensor(shape, flat, dtype) == [shape |-> shape, flat |-> flat, dtype |-> dtype]

\* Tensor.new_full(shape, value, dtype=dtype)
Full(shape, value, dtype) == Tensor(shape, [i \in 1..Numel(shape) |-> value], dtype)

\* torch.linspace(start, end, steps)
Linspace(start, end, steps) ==
  [i \in 1..steps |->
     IF steps = 1 THEN start
     ELSE Add(start, Div(Mul(Num(i - 1), Sub(end, start)), Num(steps - 1)))]

\* torch.sort(v)[1]: every index order (0-based) that puts v in ascending
\* order; the sort is not stable, so equal elements may come in any order.
RECURSIVE SortPermsFrom(_, _)
SortPermsFrom(v, rem) ==
  IF rem = {} THEN {<<>>}
  ELSE LET mins == {i \in rem : \A j \in rem : ~Less(v[j], v[i])}
       IN  UNION {{<<i - 1>> \o t : t \in SortPermsFrom(v, rem \ {i})} : i \in mins}

SortPerms(v) == SortPermsFrom(v, 1..Len(v))

\* torch.take(input, index): input read as 1-D, negative indices wrap
Take(input, index) ==
  LET m == Len(input.flat)
  IN  Tensor(index.shape,
             [j \in 1..Len(index.flat) |->
                input.flat[(IF index.flat[j] < 0 THEN index.flat[j] + m
                            ELSE index.flat[j]) + 1]],
             input.dtype)

\* Tensor.masked_fill_(mask, value), as the tensor after the call
MaskedFill(t, mask, value) ==
  Tensor(t.shape, [j \in 1..Len(t.flat) |-> IF mask.flat[j] THEN value ELSE t.flat[j]],
         t.dtype)

RECURSIVE SetToSeq(_)
SetToSeq(S) ==
  IF S = {} THEN <<>>
  ELSE LET m == CHOOSE x \in S : \A y \in S : x <= y
       IN  <<m>> \o SetToSeq(S \ {m})

SeqMax(s) == CHOOSE x \in {s[i] : i \in 1..Len(s)} : \A i \in 1..Len(s) : s[i] <= x

\* --------------------------------------------------------- ParallelGroupBy
\* line 18: keys + linspace(0, 0.9, n)
RelativeKey(keys) ==
  LET n == Len(keys)
      off == Linspace(Num(0), Norm(9, 10), n)
  IN  [i \in 1..n |-> Add(keys[i], off[i])]

\* lines 19-24: group boundaries of the sorted, truncated keys
Boundary(keys, sorted_indices) ==
  LET n == Len(keys)
      rk == RelativeKey(keys)
      sorted_keys == [j \in 1..n |-> Trunc(rk[sorted_indices[j] + 1])]
      nz == {j \in 1..(n - 1) : sorted_keys[j + 1] - sorted_keys[j] # 0}
  IN  <<0>> \o SetToSeq(nz) \o <<n>>

\* np.diff(boundary).max()
Width(boundary) ==
  SeqMax([i \in 1..(Len(boundary) - 1) |-> boundary[i + 1] - boundary[i]])

\* lines 28-30 and 35-37: new_full((groups, width), fill), then row i gets
\* sorted_indices[start:end] in its first end - start cells
IndexMatrix(boundary, sorted_indices, fill) ==
  LET groups == Len(boundary) - 1
      width == Width(boundary)
  IN  Tensor(<<groups, width>>,
             [c \in 1..(groups * width) |->
                LET i == (c - 1) \div width
                    k == (c - 1) % width
                    start == boundary[i + 1]
                    end == boundary[i + 2]
                IN  IF k < end - start THEN sorted_indices[start + k + 1] ELSE fill],
             "int64")

\* InverseFlat with the -1 fill of take_indices in place of n + 1: the
\* sentinels then sort before every row index
InverseFlatTakeFill(keys, sorted_indices) ==
  LET m == IndexMatrix(Boundary(keys, sorted_indices), sorted_indices, -1)
  IN  [c \in 1..Len(m.flat) |-> Num(m.flat[c])]

\* line 32: the flattened matrix whose sort gives inverse_indices
InverseFlat(keys, sorted_indices) ==
  LET m == IndexMatrix(Boundary(keys, sorted_indices), sorted_indices, Len(keys) + 1)
  IN  [c \in 1..Len(m.flat) |-> Num(m.flat[c])]

\* lines 15-46: the object __init__ builds, given the orders p1 and p2 that
\* the two torch.sort calls returned
ParallelGroupByInit(keys, p1, p2) ==
  LET n == Len(keys)
      boundary == Boundary(keys, p1)
      take_indices == IndexMatrix(boundary, p1, -1)
      width == Width(boundary)
      groups == Len(boundary) - 1
  IN  [_boundary |-> boundary,
       _sorted_indices |-> take_indices,
       _padding_mask |-> Tensor(take_indices.shape,
                                [c \in 1..Len(take_indices.flat) |-> take_indices.flat[c] = -1],
                                "bool"),
       _inverse_indices |-> Tensor(<<n>>, SubSeq(p2, 1, n), "int64"),
       _width |-> width,
       _groups |-> groups,
       _data_shape |-> <<groups, width>>]

\* the element types split's assertion names (line 50)
IntDtypes == {"int8", "int16", "int32", "int64"}

\* what the expression ret.type evaluates to: Tensor.type is a method, so the
\* attribute is the bound method object, never a dtype
TypeAttr(t) == "builtin_method"

\* what a float-to-integer conversion of NaN may store where the build does
\* not reject it (unspecified by the language)
NanAsInt == {Num(0), Num(-128)}

None == <<>>

Some(v) == <<v>>

\* lines 48-53: every outcome of split; self is the object after the call
split(self, data) ==
  LET ret == Take(data, self._sorted_indices)
  IN  IF TypeAttr(ret) \in IntDtypes
      THEN {[self |-> self, ret |-> None, err |-> "AssertionError"]}
      ELSE IF ret.dtype \in IntDtypes
      THEN {[self |-> self, ret |-> None, err |-> "RuntimeError"]} \cup
           {[self |-> self, ret |-> Some(MaskedFill(ret, self._padding_mask, g)), err |-> ""]
              : g \in NanAsInt}
      ELSE {[self |-> self, ret |-> Some(MaskedFill(ret, self._padding_mask, NaN)), err |-> ""]}

\* str.format of line 58-62: where each argument lands in the text
FormatMultiReturn(args) ==
  [text |-> "has multiple return values", needs_shape |-> args[3],
   input_factor |-> args[2], is_shape |-> args[1]]

\* str.format of line 64-65
FormatMustSame(args) ==
  [text |-> "must same as input", return_shape |-> args[1],
   factor |-> args[2], input_shape |-> args[3]]

NoMsg == [text |-> ""]

\* the slice s[:k], which stops at the end of s
Prefix(s, k) == SubSeq(s, 1, IF k < Len(s) THEN k ELSE Len(s))

\* revert that takes a buffer for a multiple-return-values one as soon as its
\* leading dimension is right
revertLeadingDim(self, split_data, dbg_str) ==
  IF split_data.shape # self._data_shape
  THEN IF Prefix(split_data.shape, 1) = Prefix(self._data_shape, 1)
       THEN [self |-> self, ret |-> None, err |-> "ValueError",
             msg |-> FormatMultiReturn(<<split_data.shape, dbg_str, self._data_shape>>)]
       ELSE [self |-> self, ret |-> None, err |-> "ValueError",
             msg |-> FormatMustSame(<<split_data.shape, dbg_str, self._data_shape>>)]
  ELSE [self |-> self, ret |-> Some(Take(split_data, self._inverse_indices)),
        err |-> "", msg |-> NoMsg]

\* lines 55-66
revert(self, split_data, dbg_str) ==
  IF split_data.shape # self._data_shape
  THEN IF Prefix(split_data.shape, 2) = Prefix(self._data_shape, 2)
       THEN [self |-> self, ret |-> None, err |-> "ValueError",
             msg |-> FormatMultiReturn(<<split_data.shape, dbg_str, self._data_shape>>)]
       ELSE [self |-> self, ret |-> None, err |-> "ValueError",
             msg |-> FormatMustSame(<<split_data.shape, dbg_str, self._data_shape>>)]
  ELSE [self |-> self, ret |-> Some(Take(split_data, self._inverse_indices)),
        err |-> "", msg |-> NoMsg]

\* lines 68-71
create(self, dtype, values, nan_fill) ==
  LET ret == Full(self._sorted_indices.shape, values, dtype)
  IN  [self |-> self, ret |-> Some(MaskedFill(ret, self._padding_mask, nan_fill)), err |-> ""]

\* ------------------------------------------------- NaN-aware reductions
\* A reduction gives ret, its result, and data, the caller's tensor as the
\* call leaves it (the functions clone before they write).

\* data[isnan] = v
FillNaN(data, v) ==
  Tensor(data.shape, [c \in 1..Len(data.flat) |-> IF IsNaN(data.flat[c]) THEN v ELSE data.flat[c]],
         data.dtype)

RECURSIVE SeqSum(_)
SeqSum(w) == IF w = <<>> THEN Num(0) ELSE Add(w[1], SeqSum(Tail(w)))

RECURSIVE SeqMaxF(_)
SeqMaxF(w) ==
  IF Len(w) = 1 THEN w[1]
  ELSE LET m == SeqMaxF(Tail(w)) IN IF Less(m, w[1]) THEN w[1] ELSE m

RECURSIVE SeqMinF(_)
SeqMinF(w) ==
  IF Len(w) = 1 THEN w[1]
  ELSE LET m == SeqMinF(Tail(w)) IN IF Less(w[1], m) THEN w[1] ELSE m

CountNotNaN(w) == Cardinality({k \in 1..Len(w) : ~IsNaN(w[k])})

\* window c (1-based, row-major over the first two axes) of a 3-D tensor
WindowAt(data, c) == SubSeq(data.flat, (c - 1) * data.shape[3] + 1, c * data.shape[3])

\* a reduction over the last axis of a 3-D tensor
ReduceDim2(data, F(_)) ==
  Tensor(<<data.shape[1], data.shape[2]>>,
         [c \in 1..(data.shape[1] * data.shape[2]) |-> F(WindowAt(data, c))],
         data.dtype)

\* nansum that fills the caller's buffer instead of a clone of it
nansumInPlace(data) ==
  LET d == FillNaN(data, Num(0))
  IN  [ret |-> ReduceDim2(d, SeqSum), data |-> d, err |-> ""]

\* lines 74-78
nansum(data) ==
  LET d == FillNaN(data, Num(0))
  IN  [ret |-> ReduceDim2(d, SeqSum), data |-> data, err |-> ""]

nanmean(data) ==
  LET d == FillNaN(data, Num(0))
      sum == ReduceDim2(d, SeqSum)
  IN  [ret |-> Tensor(sum.shape,
                      [c \in 1..Len(sum.flat) |->
                         Div(sum.flat[c], Num(CountNotNaN(WindowAt(data, c))))],
                      sum.dtype),
       data |-> data, err |-> ""]

nanmax(data) ==
  LET d == FillNaN(data, NegInf)
  IN  [ret |-> ReduceDim2(d, SeqMaxF), data |-> data, err |-> ""]

nanmin(data) ==
  LET d == FillNaN(data, PosInf)
  IN  [ret |-> ReduceDim2(d, SeqMinF), data |-> data, err |-> ""]

\* argmin: the position (0-based) of the least element
ArgMin(w) ==
  (CHOOSE k \in 1..Len(w) :
     /\ \A j \in 1..Len(w) : ~Less(w[j], w[k])
     /\ \A j \in 1..(k - 1) : Less(w[k], w[j])) - 1

NotOne(d) == d # 1

\* Tensor.squeeze(): every axis of size 1 is dropped
Squeeze(shape) == SelectSeq(shape, NotOne)

\* lines 118-127, dim = 2
nanlast(data) ==
  LET W == data.shape[3]
      w == Linspace(Norm(1, 10), Num(0), W)
      Last(win) == win[ArgMin([k \in 1..W |-> Add(Num(IF IsNaN(win[k]) THEN 1 ELSE 0), w[k])]) + 1]
      gathered == ReduceDim2(data, Last)
      ret == Tensor(Squeeze(<<data.shape[1], data.shape[2], 1>>), gathered.flat, data.dtype)
  IN  IF data.shape[1] = 1
      THEN IF Len(ret.shape) = 0
           THEN [ret |-> None, data |-> data, err |-> "IndexError"]
           ELSE [ret |-> Some(Tensor(<<1>> \o ret.shape, ret.flat, ret.dtype)),
                 data |-> data, err |-> ""]
      ELSE [ret |-> Some(ret), data |-> data, err |-> ""]

\* ----------------------------------------------------------------- Rolling
DefaultSplitMulti == 64

GiB == 1073741824

\* torch.cat((a, b), dim=1) of 2-D tensors with equal row counts
Cat1(a, b) ==
  LET R == a.shape[1]
      A == a.shape[2]
      B == b.shape[2]
  IN  Tensor(<<R, A + B>>,
             [c \in 1..(R * (A + B)) |->
                LET r == (c - 1) \div (A + B)
                    k == (c - 1) % (A + B)
                IN  IF k < A THEN a.flat[r * A + k + 1] ELSE b.flat[r * B + (k - A) + 1]],
             a.dtype)

\* Tensor.unfold(1, size, 1) of a 2-D tensor
TensorUnfold(t, size) ==
  LET R == t.shape[1]
      C == t.shape[2]
      T == C - size + 1
  IN  IF size > C THEN [ret |-> None, err |-> "RuntimeError"]
      ELSE [ret |-> Some(Tensor(<<R, T, size>>,
                                [c \in 1..(R * T * size) |->
                                   LET r == (c - 1) \div (T * size)
                                       tt == ((c - 1) \div size) % T
                                       k == (c - 1) % size
                                   IN  t.flat[r * C + tt + k + 1]],
                                t.dtype)),
            err |-> ""]

\* unfold that pads after the last time step instead of before the first
unfoldPadRight(x, win, fill) ==
  LET nan_stack == Full(<<x.shape[1], win - 1>>, fill, x.dtype)
      new_x == Cat1(x, nan_stack)
  IN  TensorUnfold(new_x, win)

\* lines 162-166
unfold(x, win, fill) ==
  LET nan_stack == Full(<<x.shape[1], win - 1>>, fill, x.dtype)
      new_x == Cat1(nan_stack, x)
  IN  TensorUnfold(new_x, win)

\* t[s:e] along the first axis
Rows(t, s, e) ==
  LET rowsize == Len(t.flat) \div (IF t.shape[1] = 0 THEN 1 ELSE t.shape[1])
      n == IF e > s THEN e - s ELSE 0
  IN  Tensor(<<n>> \o Tail(t.shape), SubSeq(t.flat, s * rowsize + 1, (s + n) * rowsize), t.dtype)

\* range(0, stop, step)
Range0(stop, step) == [i \in 1..((stop + step - 1) \div step) |-> (i - 1) * step]

\* lines 173-177.  memory_usage is nelement / 2^30 * _split_multi and the
\* step is int(rows / memory_usage); with _split_multi a divisor of 2^30 the
\* quotient is rows * (2^30 / _split_multi) / nelement
ChunkSplit(values, split_multi) ==
  LET rows == values.shape[1]
      q == ((GiB \div split_multi) * rows) \div Len(values.flat)
      step == IF q > 1 THEN q ELSE 1
      boundary == Range0(rows, step) \o <<rows>>
  IN  [i \in 1..(Len(boundary) - 1) |-> <<boundary[i], boundary[i + 1]>>]

\* lines 187-192; view says whether the result shares storage with values
adjusted(self, s, e) ==
  IF self.adjustments # None
  THEN LET v == Rows(self.values, s, e)
           a == Rows(self.adjustments[1], s, e)
           l == Rows(self.adjustment_last[1], s, e)
           W == v.shape[3]
       IN  [ret |-> Tensor(v.shape,
                           [c \in 1..Len(v.flat) |->
                              Div(Mul(v.flat[c], a.flat[c]), l.flat[(c - 1) \div W + 1])],
                           v.dtype),
            view |-> FALSE]
  ELSE [ret |-> Rows(self.values, s, e), view |-> TRUE]

\* x[:, :, i]
Select2(x, i) ==
  LET W == x.shape[3]
      k == IF i < 0 THEN i + W ELSE i
      At(w) == w[k + 1]
  IN  IF k < 0 \/ k >= W THEN [ret |-> None, data |-> x, err |-> "IndexError"]
      ELSE [ret |-> Some(ReduceDim2(x, At)), data |-> x, err |-> ""]

Ok(r) == [ret |-> Some(r.ret), data |-> r.data, err |-> r.err]

\* the closures the methods of lines 212-255 hand to agg, by method name
ApplyOp(self, op, x) ==
  CASE op.name = "loc" -> Select2(x, op.i)
    [] op.name = "last_nonnan" -> nanlast(x)
    [] op.name = "sum" -> [ret |-> Some(ReduceDim2(x, SeqSum)), data |-> x, err |-> ""]
    [] op.name = "nansum" -> Ok(nansum(x))
    [] op.name = "mean" ->
         LET M(w) == Div(SeqSum(w), Num(self.win))
         IN  [ret |-> Some(ReduceDim2(x, M)), data |-> x, err |-> ""]
    [] op.name = "nanmean" -> Ok(nanmean(x))
    [] op.name = "nanmax" -> Ok(nanmax(x))
    [] op.name = "nanmin" -> Ok(nanmin(x))

\* values with rows s..e-1 replaced by the chunk as the call left it
WriteRows(self, s, e, chunk) ==
  LET rowsize == Len(self.values.flat) \div self.values.shape[1]
  IN  [self EXCEPT !.values.flat =
         [c \in 1..Len(self.values.flat) |->
            IF c > s * rowsize /\ c <= e * rowsize THEN chunk.flat[c - s * rowsize]
            ELSE self.values.flat[c]]]

\* torch.cat(seq): along the first axis; the other axes must agree
Cat(seq) ==
  LET CatFlat[i \in 0..Len(seq)] == IF i = 0 THEN <<>> ELSE CatFlat[i - 1] \o seq[i].flat
      Dim0[i \in 0..Len(seq)] == IF i = 0 THEN 0 ELSE Dim0[i - 1] + seq[i].shape[1]
  IN  IF \/ seq = <<>>
         \/ \E i \in 1..Len(seq) : Len(seq[i].shape) = 0
         \/ \E i \in 1..Len(seq) : Tail(seq[i].shape) # Tail(seq[1].shape)
      THEN [ret |-> None, err |-> "RuntimeError"]
      ELSE [ret |-> Some(Tensor(<<Dim0[Len(seq)]>> \o Tail(seq[1].shape),
                                CatFlat[Len(seq)], seq[1].dtype)),
            err |-> ""]

\* line 205 and the return
AggCat(self, c) == [self |-> self, ret |-> c.ret, err |-> c.err]

\* lines 203-204: op on the chunks one after the other, from chunk i on; a
\* chunk that is a view of values carries what op wrote to it back
RECURSIVE AggFrom(_, _, _, _)
AggChunk(self, op, i, seq, view, r) ==
  IF r.err # ""
  THEN [self |-> IF view THEN WriteRows(self, self.split[i][1], self.split[i][2], r.data)
                 ELSE self,
        seq |-> seq, err |-> r.err]
  ELSE AggFrom(IF view THEN WriteRows(self, self.split[i][1], self.split[i][2], r.data)
               ELSE self,
               op, i + 1, Append(seq, r.ret[1]))

AggAdjusted(self, op, i, seq, a) == AggChunk(self, op, i, seq, a.view, ApplyOp(self, op, a.ret))

AggFrom(self, op, i, seq) ==
  IF i > Len(self.split) THEN [self |-> self, seq |-> seq, err |-> ""]
  ELSE AggAdjusted(self, op, i, seq, adjusted(self, self.split[i][1], self.split[i][2]))

AggResult(a) ==
  IF a.err # "" THEN [self |-> a.self, ret |-> None, err |-> a.err]
  ELSE AggCat(a.self, Cat(a.seq))

\* agg that keeps only the last chunk's result instead of collecting them
aggLastChunk(self, op) ==
  LET se == self.split[Len(self.split)]
      r == ApplyOp(self, op, adjusted(self, se[1], se[2]).ret)
  IN  [self |-> self, ret |-> r.ret, err |-> r.err]

\* lines 197-205, with no others
agg(self, op) == AggResult(AggFrom(self, op, 1, <<>>))

LocLast(self, r) == [self |-> self, ret |-> r.ret, err |-> r.err]

\* lines 207-215
loc(self, i) ==
  IF i = -1 THEN LocLast(self, Select2(self.values, i))
  ELSE agg(self, [name |-> "loc", i |-> i])

\* lines 220-221
last_nonnan(self) == agg(self, [name |-> "last_nonnan", i |-> 0])

NoTensor == Tensor(<<0>>, <<>>, "")

NoRolling == [values |-> NoTensor, win |-> 0, split |-> <<>>,
              adjustments |-> None, adjustment_last |-> None]

\* t[:, :, None]
Unsqueeze2(t) ==
  IF Len(t.shape) < 2 THEN [ret |-> None, err |-> "IndexError"]
  ELSE [ret |-> Some(Tensor(t.shape \o <<1>>, t.flat, t.dtype)), err |-> ""]

RollingFields(values, win, split_multi) ==
  [self |-> [values |-> values, win |-> win, split |-> ChunkSplit(values, split_multi),
             adjustments |-> None, adjustment_last |-> None],
   err |-> ""]

RollingUnfolded(u, win, split_multi) ==
  IF u.err # "" THEN [self |-> NoRolling, err |-> u.err]
  ELSE IF Len(u.ret[1].flat) = 0 THEN [self |-> NoRolling, err |-> "ZeroDivisionError"]
  ELSE RollingFields(u.ret[1], win, split_multi)

\* lines 169-177 and 184-185: __init__ with _adjustment None
RollingInitPlain(x, win, split_multi) == RollingUnfolded(unfold(x, win, NaN), win, split_multi)

\* line 182: last_nonnan()[:, :, None]
WithLast(self, rolling_adj, al) ==
  IF al.err # "" THEN [self |-> NoRolling, err |-> al.err]
  ELSE [self |-> [self EXCEPT !.adjustments = Some(rolling_adj.self.values),
                              !.adjustment_last = al.ret],
        err |-> ""]

WithLastNonnan(self, rolling_adj, ln) ==
  IF ln.err # "" THEN [self |-> NoRolling, err |-> ln.err]
  ELSE WithLast(self, rolling_adj, Unsqueeze2(ln.ret[1]))

\* lines 180-182: the fields taken from rolling_adj = Rolling(_adjustment, win)
WithAdjustment(self, rolling_adj) ==
  IF rolling_adj.err # "" THEN [self |-> NoRolling, err |-> rolling_adj.err]
  ELSE WithLastNonnan(self, rolling_adj, last_nonnan(rolling_adj.self))

RollingAdjust(r, win, adjustment, split_multi) ==
  IF r.err # "" \/ adjustment = None THEN r
  ELSE WithAdjustment(r.self, RollingInitPlain(adjustment[1], win, split_multi))

\* lines 168-185
RollingInit(x, win, adjustment, split_multi) ==
  RollingAdjust(RollingInitPlain(x, win, split_multi), win, adjustment, split_multi)

\* ------------------------------------------------------------------ inputs
\* keys: the multiples of 1/2 from -1 to KeyRange/2 (negative, integral and
\* non-integral ones)
Keys == {Norm(a, 2) : a \in (-2)..KeyRange}

KeyVectors == UNION {[1..n -> Keys] : n \in 0..MaxN}

FloatVals == {NaN, Num(1), Num(2)}

\* value buffers for a layout of n rows: every float buffer over FloatVals,
\* and for each integral element type the buffer 1, 2, .., n
Buffers(n) ==
  {Tensor(<<n>>, f, "float32") : f \in [1..n -> FloatVals]} \cup
  {Tensor(<<n>>, [i \in 1..n |-> Num(i)], dt) : dt \in IntDtypes}

Labels == {"None", "factor"}

\* Rolling inputs: every [rows x time] buffer over FloatVals with at most
\* MaxCells cells (empty ones included)
Shapes2D == {sh \in (0..MaxCells) \X (0..MaxCells) : sh[1] * sh[2] <= MaxCells}

Inputs2D == UNION {{Tensor(sh, f, "float32") : f \in [1..(sh[1] * sh[2]) -> FloatVals]}
                     : sh \in Shapes2D}

\* adjustment factors along the time axis: all 1; 2 before some time and 1
\* from it on; 1 with one missing entry
TimePatterns(T) ==
  {[t \in 1..T |-> Num(1)]} \cup
  {[t \in 1..T |-> IF t < j THEN Num(2) ELSE Num(1)] : j \in 2..T} \cup
  {[t \in 1..T |-> IF t = j THEN NaN ELSE Num(1)] : j \in 1..T}

\* no adjustment, or every row with the same pattern
Adjustments(sh) ==
  {None} \cup
  {Some(Tensor(sh, [c \in 1..(sh[1] * sh[2]) |-> pat[((c - 1) % sh[2]) + 1]], "float32"))
     : pat \in TimePatterns(sh[2])}

\* settings of Rolling._split_multi: the default and two large ones, which
\* cut small inputs into several chunks
MultiChoices == {DefaultSplitMulti, GiB \div 2, GiB}

Methods == {"sum", "nansum", "mean", "nanmean", "nanmax", "nanmin", "last_nonnan"}

\* shapes a caller may hand to revert: the expected one and its neighbours
ShapesNear(shape) ==
  LET g == shape[1]
      w == shape[2]
  IN  {<<g, w>>, <<g, w + 1>>, <<g + 1, w>>, <<w, g>>, <<g>>, <<g * w>>,
       <<g, w, 1>>, <<g, w, 2>>, <<g + 1, w, 1>>, <<g, w + 1, 2>>}

\* ------------------------------------------------------------------- state
\* pc: which object exists; keys, gb: the key vector and the ParallelGroupBy
\* built from it; x, adjustment, split_multi, ro: the arguments, the class
\* attribute _split_multi and the Rolling built from them; call: the last
\* call and what it returned or raised, held by the caller until dropped
VARIABLES pc, keys, gb, x, adjustment, split_multi, ro, call

vars == <<pc, keys, gb, x, adjustment, split_multi, ro, call>>

NoGroupBy == ParallelGroupByInit(<<>>, <<>>, <<>>)

NoCall == [op |-> "none", arg |-> None, data |-> None, label |-> "",
           ret |-> None, err |-> "", msg |-> NoMsg]

Init ==
  /\ pc = "start"
  /\ keys = <<>>
  /\ gb = NoGroupBy
  /\ x = NoTensor
  /\ adjustment = None
  /\ split_multi = DefaultSplitMulti
  /\ ro = NoRolling
  /\ call = NoCall

\* ParallelGroupBy(keys)
NewGroupBy ==
  /\ pc = "start"
  /\ \E k \in KeyVectors :
       \E p1 \in SortPerms(RelativeKey(k)) :
         \E p2 \in SortPerms(InverseFlat(k, p1)) :
           /\ keys' = k
           /\ gb' = ParallelGroupByInit(k, p1, p2)
  /\ pc' = "groupby"
  /\ call' = NoCall
  /\ UNCHANGED <<x, adjustment, split_multi, ro>>

Split ==
  /\ pc = "groupby"
  /\ call.op = "none"
  /\ \E data \in Buffers(Len(keys)) :
       \E r \in split(gb, data) :
         /\ gb' = r.self
         /\ call' = [NoCall EXCEPT !.op = "split", !.arg = Some(data),
                                   !.ret = r.ret, !.err = r.err]
  /\ UNCHANGED <<pc, keys, x, adjustment, split_multi, ro>>

Create ==
  /\ pc = "groupby"
  /\ call.op = "none"
  /\ \E values \in FloatVals, nan_fill \in {NaN, Num(0)} :
       LET r == create(gb, "float32", values, nan_fill)
       IN  /\ gb' = r.self
           /\ call' = [NoCall EXCEPT !.op = "create", !.ret = r.ret, !.err = r.err]
  /\ UNCHANGED <<pc, keys, x, adjustment, split_multi, ro>>

\* revert of the buffer the last split or create returned (dbg_str left at
\* its default)
Revert ==
  /\ pc = "groupby"
  /\ call.op \in {"split", "create"}
  /\ call.ret # None
  /\ LET r == revert(gb, call.ret[1], "None")
     IN  /\ gb' = r.self
         /\ call' = [NoCall EXCEPT !.op = "revert", !.arg = call.ret,
                       !.data = IF call.op = "split" THEN call.arg ELSE None,
                       !.label = "None",
                       !.ret = r.ret, !.err = r.err, !.msg = r.msg]
  /\ UNCHANGED <<pc, keys, x, adjustment, split_multi, ro>>

\* revert of some other buffer, of the expected shape or of one near it
RevertShape ==
  /\ pc = "groupby"
  /\ call.op = "none"
  /\ \E dbg_str \in Labels, sh \in ShapesNear(gb._data_shape) :
       LET buf == Full(sh, NaN, "float32")
           r == revert(gb, buf, dbg_str)
       IN  /\ gb' = r.self
           /\ call' = [NoCall EXCEPT !.op = "revert", !.arg = Some(buf),
                         !.label = dbg_str,
                         !.ret = r.ret, !.err = r.err, !.msg = r.msg]
  /\ UNCHANGED <<pc, keys, x, adjustment, split_multi, ro>>

\* Rolling(x, win, _adjustment), with _split_multi set beforehand
Constructed(r) ==
  /\ ro' = r.self
  /\ pc' = IF r.err = "" THEN "rolling" ELSE "raised"
  /\ call' = [NoCall EXCEPT !.op = "Rolling", !.err = r.err]

NewRolling ==
  /\ pc = "start"
  /\ \E xx \in Inputs2D, win \in 1..MaxWin, m \in MultiChoices :
       \E adj \in Adjustments(xx.shape) :
         /\ x' = xx
         /\ adjustment' = adj
         /\ split_multi' = m
         /\ Constructed(RollingInit(xx, win, adj, m))
  /\ UNCHANGED <<keys, gb>>

\* a Rolling method has returned r.ret or raised r.err, leaving r.self
Returned(op, arg, r) ==
  /\ ro' = r.self
  /\ call' = [NoCall EXCEPT !.op = op, !.arg = arg, !.ret = r.ret, !.err = r.err]

Adjusted ==
  /\ pc = "rolling"
  /\ call.op = "none"
  /\ \E s \in 0..ro.values.shape[1] :
       \E e \in s..ro.values.shape[1] :
         /\ call' = [NoCall EXCEPT !.op = "adjusted", !.arg = Some(<<s, e>>),
                                   !.ret = Some(adjusted(ro, s, e).ret)]
  /\ UNCHANGED <<pc, keys, gb, x, adjustment, split_multi, ro>>

\* loc(i); last() is loc(-1) and first() is loc(0)
Loc ==
  /\ pc = "rolling"
  /\ call.op = "none"
  /\ \E i \in (-MaxWin)..(MaxWin - 1) : Returned("loc", Some(i), loc(ro, i))
  /\ UNCHANGED <<pc, keys, gb, x, adjustment, split_multi>>

\* sum(), nansum(), mean(), nanmean(), nanmax(), nanmin(), last_nonnan()
Agg ==
  /\ pc = "rolling"
  /\ call.op = "none"
  /\ \E name \in Methods : Returned(name, None, agg(ro, [name |-> name, i |-> 0]))
  /\ UNCHANGED <<pc, keys, gb, x, adjustment, split_multi>>

\* the caller drops the result (or handles the error) of the last call
Return ==
  /\ pc \in {"groupby", "rolling"}
  /\ call.op # "none"
  /\ call' = NoCall
  /\ UNCHANGED <<pc, keys, gb, x, adjustment, split_multi, ro>>

Next ==
  \/ NewGroupBy \/ Split \/ Create \/ Revert \/ RevertShape
  \/ NewRolling \/ Adjusted \/ Loc \/ Agg
  \/ Return

Spec == Init /\ [][Next]_vars

\* -------------------------------------------------------------- properties
Cells(t) == 1..Len(t.flat)

Padded == {c \in Cells(gb._sorted_indices) : gb._padding_mask.flat[c]}

\* the rows of the index matrix that hold row index i in a non-padded cell
MatrixRows(i) ==
  {(c - 1) \div gb._width : c \in {d \in Cells(gb._sorted_indices) \ Padded :
                                    gb._sorted_indices.flat[d] = i}}

\* C1: revert of the buffer split returned for a value buffer v is v itself:
\* length N, element by element, in the original row order.
C1_RoundTrip ==
  (pc = "groupby" /\ call.op = "revert" /\ call.data # None) =>
    /\ call.err = ""
    /\ call.ret # None
    /\ call.ret[1].shape = <<Len(keys)>>
    /\ call.ret[1].flat = call.data[1].flat

\* a padded, reordering layout of three rows, and a buffer with a missing
\* entry and two different values, split and reverted
C1_Witness ==
  /\ pc = "groupby" /\ call.op = "revert" /\ call.data # None
  /\ Len(keys) = 3
  /\ Padded # {}
  /\ gb._inverse_indices.flat # <<0, 1, 2>>
  /\ call.data[1].flat = <<Num(1), NaN, Num(2)>>
  /\ call.ret # None

\* C2: every row index 0..N-1 is in exactly one non-padded cell, two row
\* indices share a matrix row exactly when their keys are equal, and the
\* padding mask is true exactly on the sentinel cells.
C2_Partition ==
  pc = "groupby" =>
    /\ \A i \in 0..(Len(keys) - 1) :
         Cardinality({c \in Cells(gb._sorted_indices) \ Padded :
                        gb._sorted_indices.flat[c] = i}) = 1
    /\ \A i, j \in 0..(Len(keys) - 1) :
         (MatrixRows(i) \cap MatrixRows(j) # {}) <=> (keys[i + 1] = keys[j + 1])
    /\ \A c \in Cells(gb._sorted_indices) :
         gb._padding_mask.flat[c] <=> (gb._sorted_indices.flat[c] = -1)

\* C3: in every row of the index matrix the non-padded cells come first and
\* hold row indices in strictly increasing order.
C3_Stable ==
  pc = "groupby" =>
    \A c \in Cells(gb._sorted_indices) :
      (c % gb._width # 0) =>
        /\ (c \in Padded) => (c + 1 \in Padded)
        /\ (c + 1 \notin Padded) =>
             gb._sorted_indices.flat[c] < gb._sorted_indices.flat[c + 1]

\* C6: split of a buffer of an integral element type fails by split's own
\* type check and returns no buffer.
C6_TypeCheck ==
  (pc = "groupby" /\ call.op = "split") =>
    ((call.arg[1].dtype \in IntDtypes) => (call.err = "AssertionError" /\ call.ret = None))

\* C7: revert raises for every shape other than (groups, width) and returns
\* only for that shape; the message is the multiple-return-values hint
\* exactly when the first two dimensions are (groups, width), the plain one
\* otherwise, and either names the actual shape, the expected shape and the
\* label.
C7_ShapeMismatch ==
  (pc = "groupby" /\ call.op = "revert") =>
    LET sh == call.arg[1].shape
        expected == <<gb._groups, gb._width>>
        leading == Len(sh) >= 2 /\ sh[1] = gb._groups /\ sh[2] = gb._width
    IN  /\ (sh # expected) <=> (call.err = "ValueError")
        /\ (sh = expected) <=> (call.err = "" /\ call.ret # None)
        /\ (call.err = "ValueError") =>
             /\ call.ret = None
             /\ leading <=> (call.msg.text = "has multiple return values")
             /\ (~leading) <=> (call.msg.text = "must same as input")
             /\ leading =>
                  /\ call.msg.is_shape = sh
                  /\ call.msg.needs_shape = expected
                  /\ call.msg.input_factor = call.label
             /\ (~leading) =>
                  /\ call.msg.return_shape = sh
                  /\ call.msg.input_shape = expected
                  /\ call.msg.factor = call.label

\* revert of a (groups, width, 2) buffer labelled "factor" has raised
C7_Witness ==
  /\ pc = "groupby" /\ call.op = "revert"
  /\ Len(keys) = 3
  /\ call.arg[1].shape = <<gb._groups, gb._width, 2>>
  /\ call.label = "factor"
  /\ call.err = "ValueError"

\* the operation a held result came from, as agg receives it
OpOf == [name |-> call.op, i |-> IF call.op = "loc" THEN call.arg[1] ELSE 0]

\* op on the whole adjusted buffer at once
Unchunked(op) == ApplyOp(ro, op, adjusted(ro, 0, ro.values.shape[1]).ret)

\* op on row r alone
OnRow(op, r) == ApplyOp(ro, op, adjusted(ro, r, r + 1).ret)

\* op reduces each row independently of the others: on the whole buffer it
\* returns the rows' own results, one after the other
RowWise(op) ==
  LET full == Unchunked(op)
      rows == [r \in 1..ro.values.shape[1] |-> OnRow(op, r - 1)]
  IN  /\ full.err = ""
      /\ \A r \in 1..Len(rows) : rows[r].err = ""
      /\ Cat([r \in 1..Len(rows) |-> rows[r].ret[1]]).ret = full.ret

XAt(r, t) == x.flat[r * x.shape[2] + t + 1]

\* x moved d time steps later, the first d steps of each row missing
Shifted(d) ==
  Tensor(x.shape,
         [c \in 1..Len(x.flat) |->
            IF (c - 1) % x.shape[2] >= d
            THEN XAt((c - 1) \div x.shape[2], ((c - 1) % x.shape[2]) - d)
            ELSE NaN],
         x.dtype)

\* C5: values has shape (rows, time, win) and values[r, t, k] is
\* x[r, t - (win - 1) + k], or the missing marker where that time index is
\* negative; last() returns x, with or without an adjustment; first()
\* without an adjustment returns x moved win - 1 steps later.
C5_Unfold ==
  pc = "rolling" =>
    /\ ro.values.shape = <<x.shape[1], x.shape[2], ro.win>>
    /\ \A r \in 0..(x.shape[1] - 1), t \in 0..(x.shape[2] - 1), k \in 0..(ro.win - 1) :
         ro.values.flat[(r * x.shape[2] + t) * ro.win + k + 1] =
           IF t - (ro.win - 1) + k >= 0 THEN XAt(r, t - (ro.win - 1) + k) ELSE NaN
    /\ (call.op = "loc") =>
         /\ (call.arg[1] = -1) => (call.err = "" /\ call.ret = Some(x))
         /\ (call.arg[1] = 0 /\ adjustment = None) =>
              (call.err = "" /\ call.ret = Some(Shifted(ro.win - 1)))

\* first() on a window of 2 over three time steps holding two different
\* values
C5_Witness ==
  /\ pc = "rolling" /\ call.op = "loc" /\ call.arg[1] = 0
  /\ adjustment = None
  /\ ro.win = 2
  /\ x.shape = <<1, 3>>
  /\ x.flat[1] # x.flat[2] /\ ~IsNaN(x.flat[1]) /\ ~IsNaN(x.flat[2])
  /\ call.ret # None

\* C8: with an adjustment of ones everywhere, rows >= 1 and time >= 1, the
\* constructor returns, and adjusted(s, e) is values[s:e] cell for cell.
C8_NeutralAdjustment ==
  (/\ pc \in {"rolling", "raised"}
   /\ x.shape[1] >= 1 /\ x.shape[2] >= 1
   /\ adjustment = Some(Full(x.shape, Num(1), "float32")))
  => /\ pc = "rolling"
     /\ (call.op = "adjusted") =>
          (call.ret = Some(Rows(ro.values, call.arg[1][1], call.arg[1][2])))

\* C9: no call on a constructed ParallelGroupBy or Rolling changes a field of
\* the object.
C9_Immutable == [][(pc \in {"groupby", "rolling"}) => (gb' = gb /\ ro' = ro)]_vars

\* nansum has returned on an engine without adjustment whose windows hold
\* missing entries
C9_Witness ==
  /\ pc = "rolling" /\ call.op = "nansum" /\ call.err = ""
  /\ adjustment = None
  /\ \E c \in 1..Len(ro.values.flat) : IsNaN(ro.values.flat[c])
  /\ \E c \in 1..Len(ro.values.flat) : ~IsNaN(ro.values.flat[c])

\* the rightmost non-missing entry of window w, the missing marker if none
Rightmost(w) ==
  IF \A k \in 1..Len(w) : IsNaN(w[k]) THEN NaN
  ELSE w[CHOOSE k \in 1..Len(w) : ~IsNaN(w[k]) /\ \A j \in (k + 1)..Len(w) : IsNaN(w[j])]

\* C10: last_nonnan returns a (rows, time) buffer whose cell [r, t] is the
\* rightmost non-missing entry of the adjusted window [r, t, :], the missing
\* marker if the window has none; it raises for no rows >= 1 and time >= 1.
C10_LastNonnan ==
  (pc = "rolling" /\ call.op = "last_nonnan") =>
    /\ call.err = ""
    /\ call.ret # None
    /\ call.ret[1].shape = <<x.shape[1], x.shape[2]>>
    /\ \A c \in 1..(x.shape[1] * x.shape[2]) :
         call.ret[1].flat[c] =
           Rightmost(WindowAt(adjusted(ro, 0, ro.values.shape[1]).ret, c))

====
